---- MODULE Spec2Model ----
(***************************************************************************)
(* Model of scripts/data_collection/download_main_dataset.py: the          *)
(* sequential fetch loop of main(), download_apk's retry loop,             *)
(* save_progress / load_progress and the end-of-run summary.               *)
(*                                                                         *)
(* The destination directory and the progress file are the durable state; *)
(* they survive from one run of main() to the next (action Rerun).  The   *)
(* remote endpoint and the local file system are the environment: what    *)
(* each request of an item meets is drawn from Outcomes.                   *)
(*                                                                         *)
(* The log level classifiers of scripts/analysis/log_level_*.py are pure   *)
(* functions of one text; they are modelled as operators and applied by    *)
(* the actions of SpecClassify.                                            *)
(***************************************************************************)
EXTENDS Integers, Sequences, FiniteSets, TLC

\* ------------------------------------------------------------------ bounds
\* longest input table explored
MaxRows == 12
\* inputs up to this length are explored with every repeat position,
\* MaxFaults endpoint faults and MaxRuns runs of main()
ShortRows == 2
\* endpoint / file-system faults met by a short input, over all its runs
MaxFaults == 3
\* faults met by a longer input
LongFaults == 1
\* runs of main() on one input (short inputs)
MaxRuns == 2

\* ------------------------------------------------------- program constants
\* Mutant: one attempt fewer than the default.
retry_count_one_less == 3 - 1

\* download_apk(..., retry_count=3)
retry_count == 3
\* if i % 10 == 0: save_progress(...)
flush_interval == 10
\* wait_time = (attempt + 1) * 5
backoff_unit == 5
\* time.sleep(1) between downloads
rate_delay == 1

VARIABLES
    df,              \* the table read from latest.csv
    rows,            \* filtered_df: the table the loop iterates, <<>> before the filter
    args,            \* argparse result: [resume, dry_run]
    pc,              \* position in main(): start, loop, done, crashed
    crash,           \* the exception that ended main(), "" if none
    i,               \* rows of the table consumed by the loop so far
    processed_apps,  \* processed_apps, as the set of its elements
    is_list,         \* processed_apps is a list (loaded from JSON), not a set
    stats,           \* the stats dict
    disk,            \* download_folder: path -> "complete" | "partial"
    progress_file,   \* ./data/metadata/download_progress.json
    last,            \* what the last loop iteration did (observation)
    net_used,        \* a request has been issued in this run (observation)
    since_flush,     \* rows handled since the last save_progress call (observation)
    disk_at_start,   \* disk when this run started (observation)
    run,             \* number of this run of main()
    prev,            \* how the previous run went: [dry_run, pc] (observation)
    faults_left,     \* faults the environment may still inject
    runs_left,       \* further runs of main() that may follow
    columns,         \* df.columns: the columns of latest.csv
    loaded,          \* load_progress has been called in this run (observation)
    lib,             \* the classifier script that is run
    text,            \* the sink text it is given
    label,           \* the log level it returns
    log_content,     \* content: the text of the log file a scanner reads
    readable,        \* open() and read() of that file succeed
    leak_report,     \* <<what check_file_for_leaks returned>>, <<>> before it has
    zero_report,     \* <<what check_file_for_message returned>>, <<>> before it has
    scanner,         \* the log scanner that moves the files
    src_files,       \* the matched files still at their source path
    dest_files,      \* the category directory: file name -> the file stored there
    dest_at_start,   \* the category directory before the first move
    file_list,       \* the matched files not yet handled
    moved_files,     \* one entry per successful shutil.move
    failed_files,    \* the files whose move raised
    now,             \* datetime.datetime.now(), in seconds
    app_names,       \* leaking_app_downloader: the list of leaking apps
    dataset,         \* what find_app_in_dataset has for each app name
    app_index,       \* the position of the loop in app_names
    app_stats,       \* the statistics of leaking_app_downloader.main
    apk_folder,      \* download_folder: app name -> state of its file
    app_pc,          \* where leaking_app_downloader.main is
    app_last,        \* what the last pass of its loop did
    results,         \* flowdroid_script: category -> how often each APK is in its list
    processed_apks,  \* flowdroid_script: the APK names marked as processed
    log_files,       \* category -> the APK names with a .log file in its directory
    processing,      \* the APK names whose processing directory holds a subdirectory
    script_pc,       \* "running", or "raised" after an error left run_flowdroid
    calls,           \* the calls of run_flowdroid so far
    restarts,        \* how often the script has been started again
    last_call        \* what the last call of run_flowdroid did

vars == <<df, rows, args, pc, crash, i, processed_apps, is_list, stats, disk,
          progress_file, last, net_used, since_flush, disk_at_start, run,
          prev, faults_left, runs_left, columns, loaded, lib, text, label,
          log_content, readable, leak_report, zero_report,
          scanner, src_files, dest_files, dest_at_start, file_list, moved_files,
          failed_files, now,
          app_names, dataset, app_index, app_stats, apk_folder, app_pc, app_last,
          results, processed_apks, log_files, processing, script_pc, calls, restarts,
          last_call>>

\* The log scanners' check functions.
checker_vars == <<log_content, readable, leak_report, zero_report>>

\* The scripts beside the fetcher and the classifiers.
mover_vars == <<scanner, src_files, dest_files, dest_at_start, file_list, moved_files,
                failed_files, now>>

leaking_vars == <<app_names, dataset, app_index, app_stats, apk_folder, app_pc, app_last>>

flowdroid_vars == <<results, processed_apks, log_files, processing, script_pc, calls,
                    restarts, last_call>>

tool_vars == <<checker_vars, mover_vars, leaking_vars, flowdroid_vars>>

\* The classifier scripts share nothing with the fetcher.
classifier_vars == <<lib, text, label>>

fetcher_vars == <<df, rows, args, pc, crash, i, processed_apps, is_list, stats, disk,
                  progress_file, last, net_used, since_flush, disk_at_start, run,
                  prev, faults_left, runs_left, columns, loaded>>

\* ------------------------------------------------------------ input rows
\* The k-th package of the dataset: pkg_name, sha256 (first 8 hex digits,
\* remaining digits), vt_scan_date (year, month, day) and markets.
Row(k) == [pkg_name |-> k, sha256 |-> <<k, 0>>, vt_scan_date |-> <<2020, 1, 15>>,
           markets |-> "play.google.com"]

\* Another release of the same package: same pkg_name, other hash and date.
OtherVersion(r) == [r EXCEPT !.sha256 = <<r.sha256[1] + 100, 0>>,
                             !.vt_scan_date = <<2021, 2, 3>>]

\* A row of another market, and a row scanned before the years of the study.
OtherMarket(r) == [r EXCEPT !.markets = "anzhi"]

TooOld(r) == [r EXCEPT !.vt_scan_date = <<2015, 12, 31>>]

\* A null sha256 cell (null_values=["", "NULL", "null"]): Python's None.
None == <<>>

\* The table 1..n whose row d has no hash.
WithNullHash(n, d) ==
    [k \in 1..n |-> IF k = d THEN [Row(k) EXCEPT !.sha256 = None] ELSE Row(k)]

\* required_cols = ['pkg_name', 'markets', 'vt_scan_date', 'sha256']
required_cols == {"pkg_name", "markets", "vt_scan_date", "sha256"}

\* Mutant: the check finds no column missing.
missing_cols_none(cols) == {}

\* missing_cols = [col for col in required_cols if col not in df.columns]
missing_cols(cols) == {c \in required_cols : c \notin cols}

\* The tables read from latest.csv: complete, or lacking one required column.
ColumnInputs == {required_cols} \cup {required_cols \ {c} : c \in required_cols}

\* filter_main_dataset, lines 74-78: Google Play rows of the years 2016-2021
in_main_study(r) ==
    /\ r.markets = "play.google.com"
    /\ r.vt_scan_date[1] >= 2016
    /\ r.vt_scan_date[1] <= 2021

\* The date d is later than the date e.
newer(d, e) ==
    \/ d[1] > e[1]
    \/ d[1] = e[1] /\ d[2] > e[2]
    \/ d[1] = e[1] /\ d[2] = e[2] /\ d[3] > e[3]

\* sort("vt_scan_date", descending=True): newest first; rows of the same
\* date are left in the order of the table.
RECURSIVE sort_newest_first(_)
sort_newest_first(rs) ==
    IF rs = <<>> THEN <<>>
    ELSE LET k == CHOOSE k \in 1..Len(rs) :
                      /\ \A j \in 1..Len(rs) : ~newer(rs[j].vt_scan_date, rs[k].vt_scan_date)
                      /\ \A j \in 1..(k - 1) : newer(rs[k].vt_scan_date, rs[j].vt_scan_date)
         IN  <<rs[k]>> \o sort_newest_first(SubSeq(rs, 1, k - 1) \o SubSeq(rs, k + 1, Len(rs)))

\* pl.read_csv(..., try_parse_dates=True): vt_scan_date is a date column when
\* the file has a value to infer the type from; a file with only the header
\* line gives a string column.
dates_parsed(table) == table # <<>>

\* filter_main_dataset with max_apps = None and sample_rate = 1.0.  On a
\* column that is no date, .dt.year() raises inside df.filter and the except
\* branch of lines 99-101 returns None.
filter_main_dataset(table) ==
    IF dates_parsed(table)
    THEN [is_none |-> FALSE, table |-> sort_newest_first(SelectSeq(table, in_main_study))]
    ELSE [is_none |-> TRUE, table |-> <<>>]

DistinctRows(n) == [k \in 1..n |-> Row(k)]

WithRepeat(n, d, r) == [k \in 1..n |-> IF k = d THEN r ELSE Row(k)]

RowInputs ==
    {DistinctRows(n) : n \in 0..MaxRows}
    \cup {WithRepeat(n, d, r) : n \in 2..ShortRows, d \in 2..ShortRows,
                                r \in {Row(1), OtherVersion(Row(1))}}
    \cup {WithRepeat(n, flush_interval, Row(1)) : n \in flush_interval..MaxRows}
    \cup {WithRepeat(n, flush_interval + 1, Row(1)) : n \in (flush_interval + 1)..MaxRows}
    \cup {WithNullHash(n, 1) : n \in 1..ShortRows}
    \cup {WithRepeat(n, 1, r) : n \in {1, ShortRows + 1},
                                r \in {OtherMarket(Row(1)), TooOld(Row(1))}}

IsShort(rs) == Len(rs) <= ShortRows

\* ------------------------------------------------------------ file names
\* scan_date.strftime("%Y%m%d")
scan_date_str(d) == d[1] * 10000 + d[2] * 100 + d[3]

\* sha256_hash[:8]
sha_prefix(h) == h[1]

\* f"{pkg_name}_{scan_date_str}_{sha256_hash[:8]}.apk" under download_folder
download_path(row) ==
    <<row.pkg_name, scan_date_str(row.vt_scan_date), sha_prefix(row.sha256)>>

\* os.path.exists(download_path)
file_exists(d, path) == path \in DOMAIN d

WriteFile(d, path, content) ==
    [p \in DOMAIN d \cup {path} |-> IF p = path THEN content ELSE d[p]]

RemoveFile(d, path) == [p \in DOMAIN d \ {path} |-> d[p]]

\* ------------------------------------------------------------ environment
\* What one request of download_apk meets.
\*   ok            the payload is streamed to the end
\*   timeout       requests.get raises a RequestException without response
\*   http_error    raise_for_status raises HTTPError with e.response.status_code
\*   stream_break  iter_content raises a RequestException after chunks were written
\*   open_error    open(download_path, 'wb') raises OSError
\*   write_error   f.write raises OSError after chunks were written
Outcome(k, s) == [kind |-> k, status |-> s]

Outcomes ==
    {Outcome(k, 0) : k \in {"ok", "timeout", "stream_break", "open_error", "write_error"}}
    \cup {Outcome("http_error", s) : s \in {404, 401, 500}}

Exists == Outcome("exists", 0)

IsFault(o) == o.kind # "ok"

\* A later request is only issued after a timeout or a non-404/401 HTTP error.
LeadsToRequest(o) == o.kind = "timeout" \/ (o.kind = "http_error" /\ o.status = 500)

RECURSIVE CountFaults(_)
CountFaults(s) == IF s = <<>> THEN 0
                  ELSE (IF IsFault(Head(s)) THEN 1 ELSE 0) + CountFaults(Tail(s))

\* One outcome per possible request of an item; entries no request can reach are "ok".
AttemptScripts ==
    {s \in [1..retry_count -> Outcomes] :
        \A k \in 1..(retry_count - 1) :
            ~LeadsToRequest(s[k]) => \A j \in (k + 1)..retry_count : s[j].kind = "ok"}

\* ------------------------------------------------------------ download_apk
\* Mutant: only 404 stops the retries.
is_permanent_only_404(status) == status = 404

\* except requests.exceptions.RequestException: 404 and 401 are not retried
is_permanent(status) == status = 404 \/ status = 401

\* if attempt < retry_count - 1: (attempt counts from 0)
should_backoff(attempt) == attempt < retry_count - 1

\* Mutant: the same wait before every retry.
wait_time_flat(attempt) == backoff_unit

\* wait_time = (attempt + 1) * 5
wait_time(attempt) == (attempt + 1) * backoff_unit

\* except Exception: if os.path.exists(download_path): os.remove(download_path)
cleanup_partial(d, path) == IF file_exists(d, path) THEN RemoveFile(d, path) ELSE d

\* The disk after the except RequestException branch: nothing is removed.
after_request_exception(d, path) == d

\* r accumulates [ok, disk, attempts, requests, backoff, events].
Step(r, d, ev, req, wait) ==
    [r EXCEPT !.disk = d,
              !.attempts = @ + 1,
              !.requests = @ + req,
              !.backoff = IF wait > 0 THEN Append(@, wait) ELSE @,
              !.events = Append(@, ev)]

RECURSIVE attempt_loop(_, _, _, _)
attempt_loop(r, path, outs, attempt) ==
    IF attempt >= retry_count
    THEN [r EXCEPT !.ok = FALSE]
    ELSE IF file_exists(r.disk, path)
    THEN [Step(r, r.disk, Exists, 0, 0) EXCEPT !.ok = TRUE]
    ELSE LET o == outs[attempt + 1]
             w == IF should_backoff(attempt) THEN wait_time(attempt) ELSE 0
         IN  CASE o.kind = "ok" ->
                    [Step(r, WriteFile(r.disk, path, "complete"), o, 1, 0)
                        EXCEPT !.ok = TRUE]
               [] o.kind = "timeout" ->
                    attempt_loop(Step(r, after_request_exception(r.disk, path), o, 1, w),
                                 path, outs, attempt + 1)
               [] o.kind = "http_error" ->
                    IF is_permanent(o.status)
                    THEN [Step(r, after_request_exception(r.disk, path), o, 1, 0)
                            EXCEPT !.ok = FALSE]
                    ELSE attempt_loop(Step(r, after_request_exception(r.disk, path), o, 1, w),
                                      path, outs, attempt + 1)
               [] o.kind = "stream_break" ->
                    attempt_loop(Step(r, after_request_exception(
                                            WriteFile(r.disk, path, "partial"), path), o, 1, w),
                                 path, outs, attempt + 1)
               [] o.kind = "open_error" ->
                    [Step(r, cleanup_partial(r.disk, path), o, 1, 0) EXCEPT !.ok = FALSE]
               [] o.kind = "write_error" ->
                    [Step(r, cleanup_partial(WriteFile(r.disk, path, "partial"), path), o, 1, 0)
                        EXCEPT !.ok = FALSE]

\* Mutant: the loop goes on to the next attempt after the exception.
except_exception_retries(r, d) ==
    [r EXCEPT !.ok = FALSE, !.disk = d, !.attempts = retry_count,
              !.events = Append(@, Outcome("type_error", 0))]

\* sha256_hash[:8] raises TypeError on None in the first attempt, before
\* download_path is bound: except Exception logs, its clean-up raises
\* NameError (swallowed by the bare except), break, return False.
except_exception(r, d) ==
    [r EXCEPT !.ok = FALSE, !.disk = d, !.attempts = @ + 1,
              !.events = Append(@, Outcome("type_error", 0))]

download_apk(d, row, outs) ==
    IF row.sha256 = None
    THEN except_exception([ok |-> FALSE, disk |-> d, attempts |-> 0, requests |-> 0,
                           backoff |-> <<>>, events |-> <<>>], d)
    ELSE
    attempt_loop([ok |-> FALSE, disk |-> d, attempts |-> 0, requests |-> 0,
                  backoff |-> <<>>, events |-> <<>>],
                 download_path(row), outs, 0)

\* ------------------------------------------------------------ progress file
ZeroStats == [successfully_downloaded |-> 0, download_failed |-> 0, skipped_existing |-> 0]

Absent == [state |-> "absent", stats |-> ZeroStats, processed_apps |-> {}]

\* The file holds the beginning of a JSON document: json.load rejects it.
Truncated == [state |-> "truncated", stats |-> ZeroStats, processed_apps |-> {}]

Snapshot(st, pa) ==
    [state |-> "complete",
     stats |-> [successfully_downloaded |-> st.successfully_downloaded,
                download_failed |-> st.download_failed,
                skipped_existing |-> st.skipped_existing],
     processed_apps |-> pa]

\* open(progress_file, 'w') truncates, json.dump writes the document piece by
\* piece and raises TypeError at a set; the exception is logged and dropped.
save_progress(st, pa, aslist) == IF aslist THEN Snapshot(st, pa) ELSE Truncated

\* load_progress: a loaded processed_apps is the JSON array, a Python list.
load_progress(pf) ==
    IF pf.state = "complete"
    THEN [processed_apps |-> pf.processed_apps, is_list |-> TRUE, stats |-> pf.stats]
    ELSE [processed_apps |-> {}, is_list |-> FALSE, stats |-> ZeroStats]

\* Mutant: a fresh run starts with a list, ([], {}).
NoProgress_list == [processed_apps |-> {}, is_list |-> TRUE, stats |-> ZeroStats]

\* load_progress() if args.resume else (set(), {})
NoProgress == [processed_apps |-> {}, is_list |-> FALSE, stats |-> ZeroStats]

\* ------------------------------------------------------------ main
\* Mutant: the membership test never succeeds.
is_processed_never(pkg, pa) == FALSE

\* if pkg_name in processed_apps: continue
is_processed(pkg, pa) == pkg \in pa

\* Mutant: a failed download is not counted.
tally_drops_failures(st, ok) ==
    IF ok THEN [st EXCEPT !.successfully_downloaded = @ + 1] ELSE st

\* stats['successfully_downloaded'] += 1 / stats['download_failed'] += 1
tally(st, ok) ==
    IF ok THEN [st EXCEPT !.successfully_downloaded = @ + 1]
          ELSE [st EXCEPT !.download_failed = @ + 1]

\* if i % 10 == 0: (i counts rows from 1)
should_flush(idx) == idx % flush_interval = 0

\* Mutant: the flag is ignored.
dry_run_selected_never(a) == FALSE

\* if args.dry_run:
dry_run_selected(a) == a.dry_run

\* The path the iteration works on; none is computed for a null hash.
target_of(row) == IF row.sha256 = None THEN <<>> ELSE download_path(row)

\* if stats['processed'] == stats['total_apps']: os.remove(progress file)
run_completed(st) == st.processed = st.total_apps

CounterSum(st) == st.successfully_downloaded + st.download_failed + st.skipped_existing

NoLast ==
    [kind |-> "none", index |-> 0, pkg |-> 0, path |-> <<>>, existed |-> FALSE,
     ok |-> FALSE, attempts |-> 0, requests |-> 0, backoff |-> <<>>, events |-> <<>>,
     flushed |-> FALSE, rate_sleep |-> FALSE, fs |-> FALSE,
     stats_before |-> ZeroStats, result |-> ZeroStats]

Counters(st) == [successfully_downloaded |-> st.successfully_downloaded,
                 download_failed |-> st.download_failed,
                 skipped_existing |-> st.skipped_existing]

\* No classifier script is run.
ClassifierIdle ==
    lib = "none" /\ text = [kind |-> "none", toks |-> <<>>] /\ label = "none"

\* No log scanner is run.
CheckerIdle ==
    log_content = <<>> /\ readable = FALSE /\ leak_report = <<>> /\ zero_report = <<>>

MoverIdle ==
    /\ scanner = "none"
    /\ src_files = {}
    /\ dest_files = <<>>
    /\ dest_at_start = <<>>
    /\ file_list = <<>>
    /\ moved_files = <<>>
    /\ failed_files = <<>>
    /\ now = 0

LeakingIdle ==
    /\ app_names = <<>>
    /\ dataset = <<>>
    /\ app_index = 0
    /\ app_stats = <<>>
    /\ apk_folder = <<>>
    /\ app_pc = "idle"
    /\ app_last = <<>>

FlowdroidIdle ==
    /\ results = <<>>
    /\ processed_apks = {}
    /\ log_files = <<>>
    /\ processing = {}
    /\ script_pc = "idle"
    /\ calls = 0
    /\ restarts = 0
    /\ last_call = <<>>

ToolsIdle == CheckerIdle /\ MoverIdle /\ LeakingIdle /\ FlowdroidIdle

Init ==
    /\ ClassifierIdle
    /\ ToolsIdle
    /\ df \in RowInputs
    /\ rows = <<>>
    /\ args \in [resume : BOOLEAN, dry_run : BOOLEAN]
    /\ pc = "start"
    /\ crash = ""
    /\ i = 0
    /\ processed_apps = {}
    /\ is_list = FALSE
    /\ stats = [total_apps |-> 0, successfully_downloaded |-> 0, download_failed |-> 0,
                skipped_existing |-> 0, processed |-> 0]
    /\ disk = <<>>
    /\ progress_file = Absent
    /\ last = NoLast
    /\ net_used = FALSE
    /\ since_flush = 0
    /\ disk_at_start = <<>>
    /\ run = 1
    /\ prev = [dry_run |-> FALSE, pc |-> "none"]
    /\ faults_left = IF IsShort(df) THEN MaxFaults ELSE LongFaults
    /\ runs_left = IF IsShort(df) THEN MaxRuns - 1 ELSE 0
    /\ columns \in ColumnInputs
    /\ loaded = FALSE

\* main(), lines 220-225: a required column is missing, main() returns.
MissingColumns ==
    /\ UNCHANGED <<classifier_vars, tool_vars>>
    /\ pc = "start"
    /\ missing_cols(columns) # {}
    /\ pc' = "aborted"
    /\ UNCHANGED <<df, rows, args, crash, i, processed_apps, is_list, stats, disk,
                   progress_file, last, net_used, since_flush, disk_at_start, run,
                   prev, faults_left, runs_left, columns, loaded>>

\* main(), lines 227-230: filter_main_dataset returns None, main() returns.
FilterFails ==
    /\ UNCHANGED <<classifier_vars, tool_vars>>
    /\ pc = "start"
    /\ missing_cols(columns) = {}
    /\ filter_main_dataset(df).is_none
    /\ pc' = "aborted"
    /\ UNCHANGED <<df, rows, args, crash, i, processed_apps, is_list, stats, disk,
                   progress_file, last, net_used, since_flush, disk_at_start, run,
                   prev, faults_left, runs_left, columns, loaded>>

\* main(), lines 227-247: filter and sort the table, load the progress, set up
\* the statistics.
MainSetup ==
    /\ UNCHANGED <<classifier_vars, tool_vars>>
    /\ pc = "start"
    /\ missing_cols(columns) = {}
    /\ ~filter_main_dataset(df).is_none
    /\ rows' = filter_main_dataset(df).table
    /\ loaded' = args.resume
    /\ LET p == IF args.resume THEN load_progress(progress_file) ELSE NoProgress
       IN  /\ processed_apps' = p.processed_apps
           /\ is_list' = p.is_list
           /\ stats' = [total_apps |-> Len(rows'),
                        successfully_downloaded |-> p.stats.successfully_downloaded,
                        download_failed |-> p.stats.download_failed,
                        skipped_existing |-> p.stats.skipped_existing,
                        processed |-> Cardinality(p.processed_apps)]
    /\ pc' = "loop"
    /\ UNCHANGED <<df, args, crash, i, disk, progress_file, last, net_used,
                   since_flush, disk_at_start, run, prev, faults_left, runs_left,
                   columns>>

\* Lines 271-281 after the outcome st1 of row idx has been tallied:
\* processed_apps.add, stats['processed'], save_progress, time.sleep(1).
Finish(idx, row, st1, d1, obs) ==
    IF is_list
    THEN \* 'list' object has no attribute 'add'
         /\ pc' = "crashed"
         /\ crash' = "AttributeError"
         /\ stats' = st1
         /\ disk' = d1
         /\ last' = obs
         /\ UNCHANGED <<i, processed_apps, progress_file, since_flush>>
    ELSE LET pa == processed_apps \cup {row.pkg_name}
             st2 == [st1 EXCEPT !.processed = Cardinality(pa)]
             fl == should_flush(idx)
         IN  /\ processed_apps' = pa
             /\ stats' = st2
             /\ disk' = d1
             /\ progress_file' = IF fl THEN save_progress(st2, pa, is_list)
                                       ELSE progress_file
             /\ since_flush' = IF fl THEN 0 ELSE since_flush + 1
             /\ last' = [obs EXCEPT !.flushed = fl, !.rate_sleep = ~args.dry_run,
                                    !.result = Counters(st2)]
             /\ i' = idx
             /\ UNCHANGED <<pc, crash>>

\* Lines 255-257: the row's pkg_name is already in processed_apps.
SkipProcessed ==
    /\ UNCHANGED <<classifier_vars, tool_vars>>
    /\ pc = "loop"
    /\ i < Len(rows)
    /\ is_processed(rows[i + 1].pkg_name, processed_apps)
    /\ i' = i + 1
    /\ last' = [NoLast EXCEPT !.kind = "skip", !.index = i + 1,
                              !.pkg = rows[i + 1].pkg_name,
                              !.stats_before = Counters(stats),
                              !.result = Counters(stats)]
    /\ UNCHANGED <<df, rows, args, pc, crash, processed_apps, is_list, stats, disk,
                   progress_file, net_used, since_flush, disk_at_start, run,
                   prev, faults_left, runs_left, columns, loaded>>

\* Lines 261-263 and 271-281 under --dry-run.
DryRunRow ==
    /\ UNCHANGED <<classifier_vars, tool_vars>>
    /\ pc = "loop"
    /\ i < Len(rows)
    /\ ~is_processed(rows[i + 1].pkg_name, processed_apps)
    /\ dry_run_selected(args)
    /\ LET row == rows[i + 1]
           obs == [NoLast EXCEPT !.kind = "dry_run", !.index = i + 1,
                                 !.pkg = row.pkg_name, !.ok = TRUE,
                                 !.path = target_of(row),
                                 !.existed = file_exists(disk, target_of(row)),
                                 !.stats_before = Counters(stats),
                                 !.result = Counters(tally(stats, TRUE))]
       IN  Finish(i + 1, row, tally(stats, TRUE), disk, obs)
    /\ UNCHANGED <<df, rows, args, is_list, net_used, disk_at_start, run, prev,
                   faults_left, runs_left, columns, loaded>>

\* Lines 264-281: download_apk, then the bookkeeping.
DownloadRow ==
    /\ UNCHANGED <<classifier_vars, tool_vars>>
    /\ pc = "loop"
    /\ i < Len(rows)
    /\ ~is_processed(rows[i + 1].pkg_name, processed_apps)
    /\ ~dry_run_selected(args)
    /\ \E outs \in AttemptScripts :
        /\ CountFaults(outs) <= faults_left
        /\ LET row == rows[i + 1]
               r == download_apk(disk, row, outs)
               st1 == tally(stats, r.ok)
               obs == [NoLast EXCEPT !.kind = "download", !.index = i + 1,
                                     !.pkg = row.pkg_name, !.ok = r.ok,
                                     !.path = target_of(row),
                                     !.existed = file_exists(disk, target_of(row)),
                                     !.attempts = r.attempts,
                                     !.requests = r.requests,
                                     !.backoff = r.backoff,
                                     !.events = r.events,
                                     !.fs = TRUE,
                                     !.stats_before = Counters(stats),
                                     !.result = Counters(st1)]
           IN  /\ Finish(i + 1, row, st1, r.disk, obs)
               /\ net_used' = (net_used \/ r.requests > 0)
               /\ faults_left' = faults_left - CountFaults(outs)
    /\ UNCHANGED <<df, rows, args, is_list, disk_at_start, run, prev, runs_left,
                   columns, loaded>>

\* Lines 283-298: the summary and the clean-up of the progress file.
Summary ==
    /\ UNCHANGED <<classifier_vars, tool_vars>>
    /\ pc = "loop"
    /\ i = Len(rows)
    /\ IF stats.processed = 0
       THEN \* stats['successfully_downloaded']/stats['processed']
            /\ pc' = "crashed"
            /\ crash' = "ZeroDivisionError"
            /\ UNCHANGED progress_file
       ELSE /\ pc' = "done"
            /\ crash' = ""
            /\ progress_file' = IF run_completed(stats) THEN Absent ELSE progress_file
    /\ UNCHANGED <<df, rows, args, i, processed_apps, is_list, stats, disk, last,
                   net_used, since_flush, disk_at_start, run, prev, faults_left,
                   runs_left, columns, loaded>>

\* The script is started again on the same latest.csv and the same
\* directories: a new process, with no filtered_df until line 228.
Rerun ==
    /\ UNCHANGED <<classifier_vars, tool_vars>>
    /\ pc \in {"done", "crashed"}
    /\ runs_left > 0
    /\ args' \in [resume : BOOLEAN, dry_run : BOOLEAN]
    /\ pc' = "start"
    /\ rows' = <<>>
    /\ crash' = ""
    /\ i' = 0
    /\ processed_apps' = {}
    /\ is_list' = FALSE
    /\ stats' = [total_apps |-> 0, successfully_downloaded |-> 0, download_failed |-> 0,
                 skipped_existing |-> 0, processed |-> 0]
    /\ last' = NoLast
    /\ net_used' = FALSE
    /\ since_flush' = 0
    /\ disk_at_start' = disk
    /\ run' = run + 1
    /\ prev' = [dry_run |-> args.dry_run, pc |-> pc]
    /\ runs_left' = runs_left - 1
    /\ loaded' = FALSE
    /\ UNCHANGED <<df, disk, progress_file, faults_left, columns>>

Next ==
    \/ MissingColumns
    \/ FilterFails
    \/ MainSetup
    \/ SkipProcessed
    \/ DryRunRow
    \/ DownloadRow
    \/ Summary
    \/ Rerun

Spec == Init /\ [][Next]_vars

\* ------------------------------------------------------------ log level classifiers
\* (scripts/analysis/log_level_*.py)  A text is a sequence of tokens, each a
\* word or a punctuation character; a keyword of the source is the sequence
\* of its tokens, and `keyword in sink_str` is the search for that sequence.

\* None, float('nan') and str values of the sink column.
NoneText == [kind |-> "none", toks |-> <<>>]

NaNText == [kind |-> "nan", toks |-> <<>>]

Str(ts) == [kind |-> "str", toks |-> ts]

\* `not sink_text`: None and '' are falsy, nan is not.
falsy(t) == t.kind = "none" \/ (t.kind = "str" /\ t.toks = <<>>)

\* pd.isna(sink_text)
isna(t) == t.kind \in {"none", "nan"}

\* str.lower() on the words of the input texts that hold capitals.
lower_tok(t) ==
    CASE t = "D" -> "d"
      [] t = "FileAppender" -> "fileappender"
      [] t = "I" -> "i"
      [] t = "Info" -> "info"
      [] t = "Logger" -> "logger"
      [] t = "LoggerFactory" -> "loggerfactory"
      [] t = "SLF4J" -> "slf4j"
      [] t = "Timber" -> "timber"
      [] t = "Void" -> "void"
      [] t = "Warn" -> "warn"
      [] t = "appendLoopOnAppenders" -> "appendlooponappenders"
      [] t = "doAppend" -> "doappend"
      [] t = "getLogger" -> "getlogger"
      [] OTHER -> t

\* str(sink_text).lower()
lower(ts) == [k \in 1..Len(ts) |-> lower_tok(ts[k])]

\* keyword in sink_str
contains(s, kw) ==
    \E k \in 0..(Len(s) - Len(kw)) : SubSeq(s, k + 1, k + Len(kw)) = kw

\* any(keyword in sink_str for keyword in [...])
any_in(s, kws) == \E kw \in kws : contains(s, kw)

\* Mutant: the last branch of the chain that matches decides.
first_level_last_wins(s, levels, other) ==
    LET hits == {k \in 1..Len(levels) : any_in(s, levels[k].keywords)}
    IN  IF hits = {} THEN other
        ELSE levels[CHOOSE k \in hits : \A j \in hits : j <= k].label

\* The if/elif chain: the first branch whose keyword list matches decides.
first_level(s, levels, other) ==
    LET hits == {k \in 1..Len(levels) : any_in(s, levels[k].keywords)}
    IN  IF hits = {} THEN other
        ELSE levels[CHOOSE k \in hits : \A j \in hits : k <= j].label

\* log_level_logback.py: the keyword lists of identify_logback_log_level, in the order of the chain.
logback_levels ==
    <<[label |-> "ERROR", keywords |-> {<<"void", " ", "error", "(">>, <<"error", "(">>}],
      [label |-> "WARN", keywords |-> {<<"void", " ", "warn", "(">>, <<"warn", "(">>}],
      [label |-> "INFO", keywords |-> {<<"void", " ", "info", "(">>, <<"info", "(">>}],
      [label |-> "DEBUG", keywords |-> {<<"void", " ", "debug", "(">>, <<"debug", "(">>}],
      [label |-> "TRACE", keywords |-> {<<"void", " ", "trace", "(">>, <<"trace", "(">>}],
      [label |-> "GENERIC_LOG", keywords |-> {<<"void", " ", "log", "(">>, <<"log", "(">>}],
      [label |-> "APPENDER", keywords |-> {<<"doappend">>, <<"writeout">>, <<"callappenders">>, <<"appendloopOnappenders">>}]>>

\* logback_indicators
logback_indicators ==
    {<<"ch", ".", "qos", ".", "logback">>, <<"logback">>}

\* logback_patterns
logback_patterns ==
    {<<"ch", ".", "qos", ".", "logback", ".", "classic", ".", "logger">>,
     <<"ch", ".", "qos", ".", "logback", ".", "core">>,
     <<"logback", ".", "classic">>, <<"logback", ".", "core">>,
     <<"logcatappender">>, <<"rollingfileappender">>, <<"consoleappender">>,
     <<"fileappender">>, <<"appenderbase">>}

\* Mutant: every text passes for a Logback text.
is_logback_related_always(t) == TRUE

is_logback_related(t) ==
    IF falsy(t) \/ isna(t) THEN FALSE
    ELSE LET s == lower(t.toks)
         IN  any_in(s, logback_indicators) \/ any_in(s, logback_patterns)

identify_logback_log_level(t) ==
    IF falsy(t) \/ isna(t) THEN "Unknown"
    ELSE LET s == lower(t.toks)
         IN  IF ~is_logback_related(Str(s)) THEN "Unknown"
             ELSE first_level(s, logback_levels, "LOGBACK_OTHER")

\* log_level_slf4j.py: the keyword lists of identify_slf4j_log_level, in the order of the chain.
slf4j_levels ==
    <<[label |-> "ERROR", keywords |-> {<<"error">>}],
      [label |-> "WARN", keywords |-> {<<"warn">>}],
      [label |-> "INFO", keywords |-> {<<"info">>}],
      [label |-> "DEBUG", keywords |-> {<<"debug">>}],
      [label |-> "TRACE", keywords |-> {<<"trace">>}]>>

\* 'org.slf4j' in sink_str or 'slf4j' in sink_str
slf4j_gate ==
    {<<"org", ".", "slf4j">>, <<"slf4j">>}

\* slf4j_indicators
slf4j_indicators == {<<"org", ".", "slf4j">>, <<"slf4j">>}

\* slf4j_logger_patterns
slf4j_logger_patterns ==
    {<<"org", ".", "slf4j", ".", "logger">>, <<"slf4j", ".", "logger">>,
     <<"loggerfactory", ".", "getlogger">>,
     <<"org", ".", "slf4j", ".", "loggerfactory">>}

is_slf4j_related(t) ==
    IF falsy(t) \/ isna(t) THEN FALSE
    ELSE LET s == lower(t.toks)
         IN  any_in(s, slf4j_indicators) \/ any_in(s, slf4j_logger_patterns)

identify_slf4j_log_level(t) ==
    IF falsy(t) \/ isna(t) THEN "Unknown"
    ELSE LET s == lower(t.toks)
         IN  IF ~any_in(s, slf4j_gate) THEN "Unknown"
             ELSE first_level(s, slf4j_levels, "SLF4J_OTHER")

\* log_level_timber.py: the keyword lists of identify_timber_log_level, in the order of the chain.
timber_levels ==
    <<[label |-> "FATAL", keywords |-> {<<"fatal">>, <<"wtf">>}],
      [label |-> "ERROR", keywords |-> {<<"void", " ", "error", "(">>, <<"void", " ", "e", "(">>}],
      [label |-> "WARN", keywords |-> {<<"void", " ", "warn", "(">>, <<"void", " ", "w", "(">>}],
      [label |-> "INFO", keywords |-> {<<"void", " ", "info", "(">>, <<"void", " ", "i", "(">>}],
      [label |-> "DEBUG", keywords |-> {<<"void", " ", "debug", "(">>, <<"void", " ", "d", "(">>}],
      [label |-> "TRACE", keywords |-> {<<"void", " ", "trace", "(">>, <<"void", " ", "v", "(">>}]>>

\* timber_indicators
timber_indicators ==
    {<<"timber">>, <<"com", ".", "jakewharton", ".", "timber">>,
     <<"jakewharton", ".", "timber">>}

\* timber_patterns
timber_patterns ==
    {<<"timber", ".", "plant">>, <<"timber", ".", "tree">>,
     <<"timber", ".", "debugtree">>, <<"timber", ".", "log">>,
     <<"timber", ".", "tag">>}

is_timber_related(t) ==
    IF falsy(t) \/ isna(t) THEN FALSE
    ELSE LET s == lower(t.toks)
         IN  any_in(s, timber_indicators) \/ any_in(s, timber_patterns)

identify_timber_log_level(t) ==
    IF falsy(t) \/ isna(t) THEN "Unknown"
    ELSE LET s == lower(t.toks)
         IN  IF ~is_timber_related(Str(s)) THEN "Unknown"
             ELSE first_level(s, timber_levels, "TIMBER_OTHER")

\* log_level_logger.py: the keyword lists of identify_orhanobut_log_level, in the order of the chain.
orhanobut_levels ==
    <<[label |-> "WTF", keywords |-> {<<"void", " ", "wtf", "(">>, <<".", "wtf", "(">>, <<"wtf", "(">>}],
      [label |-> "ERROR", keywords |-> {<<"void", " ", "e", "(">>, <<".", "e", "(">>}],
      [label |-> "WARN", keywords |-> {<<"void", " ", "w", "(">>, <<".", "w", "(">>}],
      [label |-> "INFO", keywords |-> {<<"void", " ", "i", "(">>, <<".", "i", "(">>}],
      [label |-> "DEBUG", keywords |-> {<<"void", " ", "d", "(">>, <<".", "d", "(">>}],
      [label |-> "VERBOSE", keywords |-> {<<"void", " ", "v", "(">>, <<".", "v", "(">>}]>>

\* orhanobut_indicators
orhanobut_indicators ==
    {<<"com", ".", "orhanobut", ".", "logger">>, <<"orhanobut", ".", "logger">>}

\* orhanobut_patterns
orhanobut_patterns ==
    {<<"com", ".", "orhanobut", ".", "logger", ".", "logger">>,
     <<"com", ".", "orhanobut", ".", "logger", ".", "androidlogadapter">>,
     <<"com", ".", "orhanobut", ".", "logger", ".", "disklogadapter">>,
     <<"com", ".", "orhanobut", ".", "logger", ".", "logadapter">>,
     <<"com", ".", "orhanobut", ".", "logger", ".", "printer">>,
     <<"com", ".", "orhanobut", ".", "logger", ".", "prettyformatstrategy">>,
     <<"com", ".", "orhanobut", ".", "logger", ".", "csvformatstrategy">>,
     <<"com", ".", "orhanobut", ".", "logger", ".", "formatstrategy">>}

is_orhanobut_logger_related(t) ==
    IF falsy(t) \/ isna(t) THEN FALSE
    ELSE LET s == lower(t.toks)
         IN  any_in(s, orhanobut_indicators) \/ any_in(s, orhanobut_patterns)

identify_orhanobut_log_level(t) ==
    IF falsy(t) \/ isna(t) THEN "Unknown"
    ELSE LET s == lower(t.toks)
         IN  IF ~is_orhanobut_logger_related(Str(s)) THEN "Unknown"
             ELSE first_level(s, orhanobut_levels, "OTHERS")

\* The fragments the input texts are put together from, per library.
logback_fragments ==
    {<<"ch", ".", "qos", ".", "logback", ".", "classic", ".", "Logger">>,
     <<"FileAppender">>, <<"void", " ", "error", "(">>, <<"warn", "(">>,
     <<"Info", "(">>, <<"log", "(">>, <<"appendLoopOnAppenders">>,
     <<"doAppend">>, <<":", " ">>}

slf4j_fragments ==
    {<<"org", ".", "slf4j", ".", "Logger">>,
     <<"LoggerFactory", ".", "getLogger">>, <<"SLF4J">>, <<"error">>,
     <<"Warn">>, <<"info">>, <<"debug">>, <<"trace">>,
     <<":", " ", "void", " ">>}

timber_fragments ==
    {<<"timber", ".", "log", ".", "Timber">>, <<"com", ".", "jakewharton">>,
     <<"wtf">>, <<"void", " ", "e", "(">>, <<"void", " ", "warn", "(">>,
     <<"void", " ", "i", "(">>, <<"Void", " ", "D", "(">>,
     <<"void", " ", "v", "(">>, <<"e", "(">>}

orhanobut_fragments ==
    {<<"com", ".", "orhanobut", ".", "logger", ".", "Logger">>,
     <<"orhanobut", ".", "logger">>, <<"logger">>, <<".", "wtf", "(">>,
     <<"void", " ", "e", "(">>, <<".", "w", "(">>, <<".", "I", "(">>,
     <<".", "d", "(">>, <<"void", " ", "v", "(">>}


\* The longest input text, in fragments.
MaxParts == 3

Libraries == {"logback", "slf4j", "timber", "orhanobut"}

fragments_of(l) ==
    CASE l = "logback" -> logback_fragments
      [] l = "slf4j" -> slf4j_fragments
      [] l = "timber" -> timber_fragments
      [] l = "orhanobut" -> orhanobut_fragments

RECURSIVE concat(_)
concat(ps) == IF ps = <<>> THEN <<>> ELSE Head(ps) \o concat(Tail(ps))

\* The values of the sink column a script is run on.
TextInputs(l) ==
    {NoneText, NaNText}
    \cup {Str(concat(ps)) : ps \in UNION {[1..n -> fragments_of(l)] : n \in 0..MaxParts}}

\* main() of the fetcher is not run.
FetcherIdle ==
    /\ df = <<>>
    /\ rows = <<>>
    /\ args = [resume |-> FALSE, dry_run |-> FALSE]
    /\ pc = "idle"
    /\ crash = ""
    /\ i = 0
    /\ processed_apps = {}
    /\ is_list = FALSE
    /\ stats = [total_apps |-> 0, successfully_downloaded |-> 0, download_failed |-> 0,
                skipped_existing |-> 0, processed |-> 0]
    /\ disk = <<>>
    /\ progress_file = Absent
    /\ last = NoLast
    /\ net_used = FALSE
    /\ since_flush = 0
    /\ disk_at_start = <<>>
    /\ run = 1
    /\ prev = [dry_run |-> FALSE, pc |-> "none"]
    /\ faults_left = 0
    /\ runs_left = 0
    /\ columns = required_cols
    /\ loaded = FALSE

InitClassify ==
    /\ lib \in Libraries
    /\ text \in TextInputs(lib)
    /\ label = "pending"
    /\ FetcherIdle
    /\ ToolsIdle

\* df['sink'].apply(identify_logback_log_level), one row.
ClassifyLogback ==
    /\ lib = "logback" /\ label = "pending"
    /\ label' = identify_logback_log_level(text)
    /\ UNCHANGED <<fetcher_vars, lib, text, tool_vars>>

ClassifySlf4j ==
    /\ lib = "slf4j" /\ label = "pending"
    /\ label' = identify_slf4j_log_level(text)
    /\ UNCHANGED <<fetcher_vars, lib, text, tool_vars>>

ClassifyTimber ==
    /\ lib = "timber" /\ label = "pending"
    /\ label' = identify_timber_log_level(text)
    /\ UNCHANGED <<fetcher_vars, lib, text, tool_vars>>

ClassifyOrhanobut ==
    /\ lib = "orhanobut" /\ label = "pending"
    /\ label' = identify_orhanobut_log_level(text)
    /\ UNCHANGED <<fetcher_vars, lib, text, tool_vars>>

NextClassify ==
    \/ ClassifyLogback
    \/ ClassifySlf4j
    \/ ClassifyTimber
    \/ ClassifyOrhanobut

SpecClassify == InitClassify /\ [][NextClassify]_vars

\* ------------------------------------------------------------ log scanners
\* (scripts/flowdroid_analysis/log_scanner_*.py)  The content of a log file
\* is a sequence of tokens, as the texts of the classifiers are.

\* "[main] INFO soot.jimple.infoflow.android.SetupApplication - "
SetupPrefix == "[main] INFO soot.jimple.infoflow.android.SetupApplication - "

\* target_message of log_scanner_0_leak.py; zero_leaks_pattern is the same
\* text with its special characters escaped.
target_message == <<SetupPrefix, "Found", " ", "0", " ", "leaks">>

\* \d
Digits == {"0", "1", "2", "3", "4", "5", "6", "7", "8", "9"}

digit_value(t) ==
    CASE t = "0" -> 0 [] t = "1" -> 1 [] t = "2" -> 2 [] t = "3" -> 3 [] t = "4" -> 4
      [] t = "5" -> 5 [] t = "6" -> 6 [] t = "7" -> 7 [] t = "8" -> 8 [] t = "9" -> 9

\* int(non_zero_match.group(1))
RECURSIVE int_of(_)
int_of(ds) ==
    IF ds = <<>> THEN 0
    ELSE 10 * int_of(SubSeq(ds, 1, Len(ds) - 1)) + digit_value(ds[Len(ds)])

\* The length of the run of digits that starts at position k of c.
RECURSIVE digit_run(_, _)
digit_run(c, k) ==
    IF k <= Len(c) /\ c[k] \in Digits THEN 1 + digit_run(c, k + 1) ELSE 0

\* non_zero_leaks_pattern matches at position k of c: the prefix, "Found ",
\* one or more digits, " leaks".
pattern_at(c, k) ==
    LET n == digit_run(c, k + 3)
    IN  /\ k + 2 <= Len(c)
        /\ SubSeq(c, k, k + 2) = <<SetupPrefix, "Found", " ">>
        /\ n >= 1
        /\ k + 3 + n + 1 <= Len(c)
        /\ SubSeq(c, k + 3 + n, k + 3 + n + 1) = <<" ", "leaks">>

\* The return value (has_leaks, num_leaks); NoNumber stands for None.
NoNumber == 0 - 1

Report(h, n) == [has_leaks |-> h, num_leaks |-> n]

\* Mutant: the report of zero leaks is not looked for first.
check_file_for_leaks_first_hit(c, ok) ==
    IF ~ok THEN Report(FALSE, NoNumber)
    ELSE LET hits == {k \in 1..Len(c) : pattern_at(c, k)}
             k0 == CHOOSE k \in hits : \A j \in hits : k <= j
             num == int_of(SubSeq(c, k0 + 3, k0 + 2 + digit_run(c, k0 + 3)))
         IN  IF hits # {} /\ num > 0 THEN Report(TRUE, num)
             ELSE Report(FALSE, NoNumber)

\* log_scanner_leak.py check_file_for_leaks: re.search takes the leftmost match.
check_file_for_leaks(c, ok) ==
    IF ~ok THEN Report(FALSE, NoNumber)
    ELSE IF contains(c, target_message) THEN Report(FALSE, 0)
    ELSE LET hits == {k \in 1..Len(c) : pattern_at(c, k)}
             k0 == CHOOSE k \in hits : \A j \in hits : k <= j
             num == int_of(SubSeq(c, k0 + 3, k0 + 2 + digit_run(c, k0 + 3)))
         IN  IF hits # {} /\ num > 0 THEN Report(TRUE, num)
             ELSE Report(FALSE, NoNumber)

\* log_scanner_0_leak.py check_file_for_message
check_file_for_message(c, ok, message) == ok /\ contains(c, message)

\* The lines the log files are put together from.
LeakLine(ds) == <<SetupPrefix, "Found", " ">> \o ds \o <<" ", "leaks", "\n">>

LogLines ==
    {LeakLine(<<"0">>), LeakLine(<<"0", "0">>), LeakLine(<<"3">>), LeakLine(<<"1", "0">>),
     <<"Found", " ", "3", " ", "leaks", "\n">>,
     <<"[main] INFO soot.jimple.infoflow.android.SetupApplication - ", "Done", "\n">>}

\* The longest log file, in lines.
MaxLines == 3

LogInputs == {concat(ls) : ls \in UNION {[1..n -> LogLines] : n \in 0..MaxLines}}

InitCheck ==
    /\ log_content \in LogInputs
    /\ readable \in BOOLEAN
    /\ leak_report = <<>>
    /\ zero_report = <<>>
    /\ FetcherIdle
    /\ ClassifierIdle
    /\ MoverIdle
    /\ LeakingIdle
    /\ FlowdroidIdle

\* log_scanner_leak.py reads the file.
CheckLeaks ==
    /\ leak_report = <<>>
    /\ leak_report' = <<check_file_for_leaks(log_content, readable)>>
    /\ UNCHANGED <<fetcher_vars, classifier_vars, mover_vars, leaking_vars, flowdroid_vars,
                   log_content, readable, zero_report>>

\* log_scanner_0_leak.py reads the file.
CheckMessage ==
    /\ zero_report = <<>>
    /\ zero_report' = <<check_file_for_message(log_content, readable, target_message)>>
    /\ UNCHANGED <<fetcher_vars, classifier_vars, mover_vars, leaking_vars, flowdroid_vars,
                   log_content, readable, leak_report>>

NextCheck ==
    \/ CheckLeaks
    \/ CheckMessage

SpecCheck == InitCheck /\ [][NextCheck]_vars

\* ------------------------------------------------- log scanners: moving
\* A source file is <<directory, file name>>; a file of the category
\* directory is <<file name, timestamp suffix>>, with suffix NoStamp for a
\* name without one.  The value stored under a name is the path the file
\* came from, <<"dest", name>> for a file that was there before the run.

Scanners == {"log_scanner_0_leak", "log_scanner_no_sink", "log_scanner_leak"}

SourceDirs == {"logs", "logs/run2"}

FileNames == {"a.log", "b.log"}

NoStamp == 0

\* The most files one run matches, and the last second of the clock.
MaxFiles == 3

MaxClock == 2

\* Only move_files of log_scanner_0_leak.py tests os.path.exists(dest_path).
renames_on_conflict(sc) == sc = "log_scanner_0_leak"

\* dest_path of one file
dest_path_of(sc, file_path, dest, t) ==
    LET filename == file_path[2]
    IN  IF renames_on_conflict(sc) /\ <<filename, NoStamp>> \in DOMAIN dest
        THEN <<filename, t>>
        ELSE <<filename, NoStamp>>

\* shutil.move(file_path, dest_path): a file already at dest_path is replaced.
shutil_move(dest, file_path, dest_path) ==
    [n \in DOMAIN dest \cup {dest_path} |-> IF n = dest_path THEN file_path ELSE dest[n]]

Distinct(q) == \A j, k \in 1..Len(q) : j # k => q[j] # q[k]

FileLists ==
    {q \in UNION {[1..n -> SourceDirs \X FileNames] : n \in 0..MaxFiles} : Distinct(q)}

DestInputs ==
    {[n \in {<<f, NoStamp>> : f \in present} |-> <<"dest", n[1]>>] : present \in SUBSET FileNames}

InitMove ==
    /\ scanner \in Scanners
    /\ file_list \in FileLists
    /\ src_files = {file_list[k] : k \in 1..Len(file_list)}
    /\ dest_files \in DestInputs
    /\ dest_at_start = dest_files
    /\ moved_files = <<>>
    /\ failed_files = <<>>
    /\ now = 1
    /\ FetcherIdle
    /\ ClassifierIdle
    /\ CheckerIdle
    /\ LeakingIdle
    /\ FlowdroidIdle

\* One pass of the loop over the matched files, shutil.move succeeding.
Move ==
    /\ file_list # <<>>
    /\ LET file_path == Head(file_list)
           conflict == <<file_path[2], NoStamp>> \in DOMAIN dest_files
           dest_path == dest_path_of(scanner, file_path, dest_files, now)
       IN  /\ dest_files' = shutil_move(dest_files, file_path, dest_path)
           /\ src_files' = src_files \ {file_path}
           /\ moved_files' = Append(moved_files,
                  [file_path |-> file_path, dest_path |-> dest_path, conflict |-> conflict])
    /\ file_list' = Tail(file_list)
    /\ UNCHANGED <<fetcher_vars, classifier_vars, checker_vars, leaking_vars, flowdroid_vars,
                   scanner, dest_at_start, failed_files, now>>

\* One pass of the loop, shutil.move raising: the except branch.  shutil.move
\* raises before it has written anything, or, when os.rename is refused and
\* the file is copied instead, after the copy stands at dest_path and the
\* source could not be removed.
MoveFails ==
    /\ file_list # <<>>
    /\ \E copied \in BOOLEAN :
          LET file_path == Head(file_list)
              dest_path == dest_path_of(scanner, file_path, dest_files, now)
          IN  dest_files' = IF copied THEN shutil_move(dest_files, file_path, dest_path)
                            ELSE dest_files
    /\ failed_files' = Append(failed_files, Head(file_list))
    /\ file_list' = Tail(file_list)
    /\ UNCHANGED <<fetcher_vars, classifier_vars, checker_vars, leaking_vars, flowdroid_vars,
                   scanner, src_files, dest_at_start, moved_files, now>>

\* A second passes.
Tick ==
    /\ scanner # "none"
    /\ file_list # <<>>
    /\ now < MaxClock
    /\ now' = now + 1
    /\ UNCHANGED <<fetcher_vars, classifier_vars, checker_vars, leaking_vars, flowdroid_vars,
                   scanner, src_files, dest_files, dest_at_start, file_list, moved_files,
                   failed_files>>

NextMove ==
    \/ Move
    \/ MoveFails
    \/ Tick

SpecMove == InitMove /\ [][NextMove]_vars

\* ------------------------------------------------ leaking_app_downloader
\* (scripts/data_collection/leaking_app_downloader.py)  The target file of
\* an app is named after its package, scan date and hash, so the download
\* folder is a function from the app names that have a file to the state of
\* that file.

Apps == {"com.a", "com.b"}

\* The longest list of leaking apps.
MaxApps == 3

\* What the dataset holds for an app: no row of 2023 from play.google.com,
\* one latest row, several rows with the latest scan date, or one latest row
\* whose sha256 is null.
DatasetKinds == {"absent", "one", "tie", "null_hash"}

\* find_app_in_dataset returns None
app_data_is_none(kind) == kind = "absent"

\* What a request can do: the whole body is written; the request fails
\* before the file is opened; the stream breaks after a part of the body has
\* been written; writing raises an error that is not a RequestException.
FetchOutcomes == {"ok", "http_error", "stream_broken", "write_error"}

\* leaking_app_downloader.download_apk: [success, folder afterwards, request made]
leaking_download_apk(folder, app, outcome) ==
    IF app \in DOMAIN folder
    THEN [success |-> TRUE, folder |-> folder, requested |-> FALSE]
    ELSE CASE outcome = "ok" ->
                [success |-> TRUE, requested |-> TRUE,
                 folder |-> [a \in DOMAIN folder \cup {app} |->
                                IF a = app THEN "complete" ELSE folder[a]]]
           [] outcome = "http_error" ->
                [success |-> FALSE, requested |-> TRUE, folder |-> folder]
           [] outcome = "stream_broken" ->
                [success |-> FALSE, requested |-> TRUE,
                 folder |-> [a \in DOMAIN folder \cup {app} |->
                                IF a = app THEN "partial" ELSE folder[a]]]
           [] outcome = "write_error" ->
                [success |-> FALSE, requested |-> TRUE, folder |-> folder]

\* "SKIPPED" in locals(): main has no local variable of that name.
skipped_in_locals == FALSE

AppZeroStats(n) ==
    [total_apps |-> n, found_in_dataset |-> 0, successfully_downloaded |-> 0,
     download_failed |-> 0, not_found |-> 0, skipped_existing |-> 0]

\* Mutant: a failed download is not counted.
counter_after_download_drops_failures(success, exists_after) ==
    IF success
    THEN IF exists_after
         THEN IF skipped_in_locals THEN "skipped_existing" ELSE "successfully_downloaded"
         ELSE "none"
    ELSE "none"

\* The counter main adds one to after download_apk returned (lines 204-214).
counter_after_download(success, exists_after) ==
    IF success
    THEN IF exists_after
         THEN IF skipped_in_locals THEN "skipped_existing" ELSE "successfully_downloaded"
         ELSE "none"
    ELSE "download_failed"

Bump(st, counter) ==
    IF counter = "none" THEN st ELSE [st EXCEPT ![counter] = @ + 1]

AppLists == UNION {[1..n -> Apps] : n \in 1..MaxApps}

FolderInputs ==
    UNION {[present -> {"complete", "partial"}] : present \in SUBSET Apps}

\* main after the statistics have been set up; an empty list of apps returns
\* before that (lines 151-152).
InitLeaking ==
    /\ app_names \in AppLists
    /\ dataset \in [Apps -> DatasetKinds]
    /\ app_index = 1
    /\ app_stats = AppZeroStats(Len(app_names))
    /\ apk_folder \in FolderInputs
    /\ app_pc = "loop"
    /\ app_last = <<>>
    /\ FetcherIdle
    /\ ClassifierIdle
    /\ CheckerIdle
    /\ MoverIdle
    /\ FlowdroidIdle

AppLooping == app_pc = "loop" /\ app_index <= Len(app_names)

\* lines 184-189
AppNotFound ==
    /\ AppLooping
    /\ app_data_is_none(dataset[app_names[app_index]])
    /\ app_stats' = Bump(app_stats, "not_found")
    /\ app_last' = <<[app |-> app_names[app_index], found |-> FALSE, existed |-> FALSE,
                      success |-> FALSE, requested |-> FALSE, counter |-> "not_found"]>>
    /\ app_index' = app_index + 1
    /\ UNCHANGED <<fetcher_vars, classifier_vars, checker_vars, mover_vars, flowdroid_vars,
                   app_names, dataset, apk_folder, app_pc>>

\* lines 191-196 with several latest rows: .item() raises ValueError, which
\* nothing catches; with a null sha256 line 199 raises TypeError.
AppDetailsRaise ==
    /\ AppLooping
    /\ dataset[app_names[app_index]] \in {"tie", "null_hash"}
    /\ app_stats' = Bump(app_stats, "found_in_dataset")
    /\ app_pc' = "crashed"
    /\ UNCHANGED <<fetcher_vars, classifier_vars, checker_vars, mover_vars, flowdroid_vars,
                   app_names, dataset, app_index, apk_folder, app_last>>

\* lines 191-217
AppDownload ==
    /\ AppLooping
    /\ dataset[app_names[app_index]] = "one"
    /\ \E outcome \in FetchOutcomes :
          LET app == app_names[app_index]
              r == leaking_download_apk(apk_folder, app, outcome)
              counter == counter_after_download(r.success, app \in DOMAIN r.folder)
          IN  /\ apk_folder' = r.folder
              /\ app_stats' = Bump(Bump(app_stats, "found_in_dataset"), counter)
              /\ app_last' = <<[app |-> app, found |-> TRUE,
                               existed |-> app \in DOMAIN apk_folder,
                               success |-> r.success, requested |-> r.requested,
                               counter |-> counter]>>
    /\ app_index' = app_index + 1
    /\ UNCHANGED <<fetcher_vars, classifier_vars, checker_vars, mover_vars, flowdroid_vars,
                   app_names, dataset, app_pc>>

\* The loop is over: the final statistics are printed.
AppFinish ==
    /\ app_pc = "loop"
    /\ app_index > Len(app_names)
    /\ app_pc' = "done"
    /\ UNCHANGED <<fetcher_vars, classifier_vars, checker_vars, mover_vars, flowdroid_vars,
                   app_names, dataset, app_index, app_stats, apk_folder, app_last>>

NextLeaking ==
    \/ AppNotFound
    \/ AppDetailsRaise
    \/ AppDownload
    \/ AppFinish

SpecLeaking == InitLeaking /\ [][NextLeaking]_vars

\* ------------------------------------------------------ flowdroid_script
\* (scripts/flowdroid_analysis/flowdroid_script.py)

Categories == {"successful", "overtime", "failure"}

ApkNames == {"a.apk", "b.apk"}

TIME_THRESHOLD == 600

\* execution_time, in seconds
ExecutionTimes == {1, TIME_THRESHOLD, TIME_THRESHOLD + 1}

\* The most calls of run_flowdroid, and the most new starts of the script.
MaxCalls == 3

MaxRestarts == 1

\* What subprocess.run does: it returns, it raises TimeoutExpired, or it
\* raises another error; and whether FlowDroid leaves a subdirectory in the
\* processing directory of the APK.
RunOutcomes ==
    [kind : {"returned", "timeout", "error"}, returncode : {0, 1},
     completed : BOOLEAN, execution_time : ExecutionTimes, subdir : BOOLEAN]

\* lines 114-125
category_of(o) ==
    IF o.execution_time >= TIME_THRESHOLD THEN "overtime"
    ELSE IF o.returncode = 0 \/ o.completed THEN "successful"
    ELSE "failure"

NoResults == [c \in Categories |-> [a \in ApkNames |-> 0]]

NoLogs == [c \in Categories |-> {}]

\* open(f"{output}/{category}/{app_name}.log", "w")
write_log(lf, c, a) == [lf EXCEPT ![c] = @ \cup {a}]

\* results[category].append(app_name)
append_result(rs, c, a) == [rs EXCEPT ![c][a] = @ + 1]

\* The category of the first log file written by a call.
first_category(o) ==
    CASE o.kind = "returned" -> category_of(o)
      [] o.kind = "timeout" -> "overtime"
      [] o.kind = "error" -> "failure"

\* run_flowdroid for an APK that is not yet processed.  The processing
\* directory is removed with os.rmdir after its files have been moved out: a
\* subdirectory in it makes os.rmdir raise.  In the try block the error is
\* caught by except Exception, which writes the failure log and then calls
\* os.rmdir again; raised in a handler, the error leaves run_flowdroid.
run_flowdroid(rs, pa, lf, pr, a, o) ==
    LET c == first_category(o)
        lf1 == write_log(lf, c, a)
        blocked == o.subdir \/ a \in pr
    IN  IF ~blocked
        THEN [results |-> append_result(rs, c, a), processed_apks |-> pa \cup {a},
              log_files |-> lf1, processing |-> pr, raised |-> FALSE]
        ELSE [results |-> rs, processed_apks |-> pa,
              log_files |-> IF o.kind = "returned" THEN write_log(lf1, "failure", a) ELSE lf1,
              processing |-> pr \cup {a}, raised |-> TRUE]

\* load_previously_processed_apks: one entry per .log file of each category
load_previously_processed_apks(lf) ==
    [results |-> [c \in Categories |-> [a \in ApkNames |-> IF a \in lf[c] THEN 1 ELSE 0]],
     processed_apks |-> UNION {lf[c] : c \in Categories}]

\* The script starts with empty output directories.
InitFlowdroid ==
    /\ results = NoResults
    /\ processed_apks = {}
    /\ log_files = NoLogs
    /\ processing = {}
    /\ script_pc = "running"
    /\ calls = 0
    /\ restarts = 0
    /\ last_call = <<>>
    /\ FetcherIdle
    /\ ClassifierIdle
    /\ CheckerIdle
    /\ MoverIdle
    /\ LeakingIdle

\* lines 73-76
RunFlowdroidSkip ==
    /\ script_pc = "running"
    /\ calls < MaxCalls
    /\ \E a \in processed_apks :
          last_call' = <<[app_name |-> a, was_processed |-> TRUE, ran |-> FALSE,
                          raised |-> FALSE, results_before |-> results]>>
    /\ calls' = calls + 1
    /\ UNCHANGED <<fetcher_vars, classifier_vars, checker_vars, mover_vars, leaking_vars,
                   results, processed_apks, log_files, processing, script_pc, restarts>>

\* lines 78-209
RunFlowdroid ==
    /\ script_pc = "running"
    /\ calls < MaxCalls
    /\ \E a \in ApkNames \ processed_apks, o \in RunOutcomes :
          LET r == run_flowdroid(results, processed_apks, log_files, processing, a, o)
          IN  /\ results' = r.results
              /\ processed_apks' = r.processed_apks
              /\ log_files' = r.log_files
              /\ processing' = r.processing
              /\ script_pc' = IF r.raised THEN "raised" ELSE "running"
              /\ last_call' = <<[app_name |-> a, was_processed |-> FALSE, ran |-> TRUE,
                                raised |-> r.raised, results_before |-> results]>>
    /\ calls' = calls + 1
    /\ UNCHANGED <<fetcher_vars, classifier_vars, checker_vars, mover_vars, leaking_vars,
                   restarts>>

\* The script is started again: lines 17-24 and 219.
RestartScript ==
    /\ script_pc \in {"running", "raised"}
    /\ restarts < MaxRestarts
    /\ LET r == load_previously_processed_apks(log_files)
       IN  /\ results' = r.results
           /\ processed_apks' = r.processed_apks
    /\ script_pc' = "running"
    /\ restarts' = restarts + 1
    /\ UNCHANGED <<fetcher_vars, classifier_vars, checker_vars, mover_vars, leaking_vars,
                   log_files, processing, calls, last_call>>

NextFlowdroid ==
    \/ RunFlowdroidSkip
    \/ RunFlowdroid
    \/ RestartScript

SpecFlowdroid == InitFlowdroid /\ [][NextFlowdroid]_vars

\* ==================================================================== claims
AllIdentifiers == {rows[k].pkg_name : k \in 1..Len(rows)}

\* The loop of this run has consumed the whole table.
LoopOver == pc \in {"done", "crashed"} /\ i = Len(rows)

\* The last iteration called download_apk and main() has gone on from it.
Downloaded == last.kind = "download"

Events == {last.events[k] : k \in 1..Len(last.events)}

TalliedAs(field) ==
    last.result = [last.stats_before EXCEPT ![field] = @ + 1]

\* C1: after a full run started without --resume, processed_apps is the set of
\* all identifiers of the table and the three outcome counters add up to the
\* number of rows, also when identifiers repeat.
C1_FullRunCoversEveryRow ==
    (LoopOver /\ ~args.resume) =>
        /\ processed_apps = AllIdentifiers
        /\ CounterSum(stats) = Len(rows)

\* C2: when download_apk has returned False for an item, no file is left at the
\* item's download_path, a file partly written while streaming included.
C2_NoFileAfterFailedFetch ==
    (Downloaded /\ ~last.ok) => last.path \notin DOMAIN disk

\* C3: an item all of whose attempts end in a retryable transport error is
\* attempted exactly retry_count times, with one request each, is tallied once
\* as download_failed, and main() goes on with the loop.
RetryableEvent(e) ==
    \/ e.kind \in {"timeout", "stream_break"}
    \/ e.kind = "http_error" /\ e.status \notin {404, 401}

C3_RetryableFailureExhaustsRetries ==
    (Downloaded /\ \A e \in Events : RetryableEvent(e)) =>
        /\ last.attempts = 3
        /\ last.requests = 3
        /\ ~last.ok
        /\ TalliedAs("download_failed")
        /\ pc # "crashed"
        /\ i >= last.index

C3_Witness ==
    /\ Downloaded
    /\ pc = "loop"
    /\ last.events = <<Outcome("timeout", 0), Outcome("timeout", 0), Outcome("timeout", 0)>>
    /\ i < Len(rows)

\* C4: an item the endpoint answers with HTTP 404 or 401 gets exactly one
\* request, no backoff sleep, is tallied as download_failed, and the loop goes
\* on; no request and no backoff follows a 404 or 401 answer.
PermanentEvent(e) == e.kind = "http_error" /\ e.status \in {404, 401}

C4_NotFoundAndAuthAreNotRetried ==
    Downloaded =>
        /\ (Len(last.events) >= 1 /\ PermanentEvent(last.events[1])) =>
              /\ last.requests = 1
              /\ last.attempts = 1
              /\ last.backoff = <<>>
              /\ ~last.ok
              /\ TalliedAs("download_failed")
              /\ pc # "crashed"
              /\ i >= last.index
        /\ \A k \in 1..Len(last.events) :
              PermanentEvent(last.events[k]) =>
                  /\ k = Len(last.events)
                  /\ Len(last.backoff) = k - 1
                  /\ ~last.ok

C4_Witness ==
    /\ Downloaded
    /\ pc = "loop"
    /\ last.events = <<Outcome("http_error", 401)>>
    /\ i < Len(rows)

\* C5: right after a flush the progress file is a complete, loadable snapshot
\* holding the counters and the whole processed set.
C5_FlushLeavesLoadableSnapshot ==
    (pc = "loop" /\ last.flushed) =>
        progress_file = Snapshot(stats, processed_apps)

\* C6: at every point of the loop at most flush_interval rows have been handled
\* since the last flush.
C6_BoundedStaleness == since_flush <= 10

\* C7: at every flush point the outcome counters add up to the number of
\* processed identifiers, and every handled row has incremented exactly one
\* outcome counter by one.
C7_TallyMatchesProcessed ==
    /\ last.flushed => CounterSum(stats) = Cardinality(processed_apps)
    /\ last.kind \in {"download", "dry_run"} =>
          \E f \in {"successfully_downloaded", "download_failed", "skipped_existing"} :
              /\ TalliedAs(f)
              /\ Counters(stats) = last.result

C7_Witness ==
    /\ last.flushed
    /\ Downloaded
    /\ stats.download_failed > 0
    /\ stats.successfully_downloaded > 0

\* C8: an item whose target file exists before the fetch is recorded under
\* skipped_existing and marked processed.
C8_ExistingFileTalliedAsSkipped ==
    (Downloaded /\ last.existed /\ pc # "crashed") =>
        /\ TalliedAs("skipped_existing")
        /\ last.pkg \in processed_apps

\* C9 as claimed: a second run with --resume, after a completed real run on
\* the same table, issues no request and leaves the files unchanged.
C9_SecondRunIdempotent ==
    (run > 1 /\ args.resume /\ ~args.dry_run /\ prev.pc = "done" /\ ~prev.dry_run) =>
        /\ ~net_used
        /\ disk = disk_at_start

\* C10: in a --resume run a row whose identifier is already in processed_apps
\* is passed over with no effect: no request, no access to the destination,
\* no counter change, no flush and no sleep.
AlreadyProcessedNext ==
    /\ pc = "loop"
    /\ args.resume
    /\ i < Len(rows)
    /\ rows[i + 1].pkg_name \in processed_apps

C10_SkipHasNoEffect ==
    [][AlreadyProcessedNext =>
          /\ UNCHANGED <<disk, stats, processed_apps, progress_file, net_used,
                         since_flush, faults_left, pc>>
          /\ i' = i + 1
          /\ last'.requests = 0
          /\ last'.backoff = <<>>
          /\ ~last'.fs
          /\ ~last'.flushed
          /\ ~last'.rate_sleep]_vars

C10_Witness ==
    /\ args.resume
    /\ last.kind = "skip"
    /\ last.index = i

\* C11: once the loop has consumed every row and the summary is through, the
\* progress file is gone, whatever the table (identifiers may repeat) and
\* whether or not the run resumed.
C11_ProgressFileDeletedAtEnd ==
    (pc = "done" /\ i = Len(rows)) => progress_file.state = "absent"

\* C12: a run that has entered the loop never ends in an uncaught exception:
\* it gets through the summary, also on the empty table and when every
\* download failed.
C12_RunReachesEndOfSummary == pc # "crashed"

\* An exception was raised while the last row was handled.
ErrorRaised ==
    /\ Downloaded
    /\ \E k \in 1..Len(last.events) :
           last.events[k].kind \in {"timeout", "http_error", "stream_break", "open_error",
                                    "write_error", "type_error"}

\* C13: no exception raised while a row is handled leaves the loop, in fresh
\* and in resumed runs: the run is never stopped with rows still to go, and a
\* row in whose handling an exception was raised has been tallied under exactly
\* one counter and added to processed_apps, with the loop at the next row.
C13_NoErrorEscapesLoop ==
    /\ ~(pc = "crashed" /\ i < Len(rows))
    /\ ErrorRaised =>
           /\ pc \in {"loop", "done"}
           /\ i = last.index
           /\ last.pkg \in processed_apps
           /\ CounterSum(last.result) = CounterSum(last.stats_before) + 1
           /\ Counters(stats) = last.result

\* A resumed second run in which a request failed, with a row still to go.
C13_Witness ==
    /\ run > 1
    /\ args.resume
    /\ ErrorRaised
    /\ ~last.ok
    /\ pc = "loop"
    /\ i < Len(rows)

\* C14: when a required column is missing from the table, main() returns
\* before the loop: no row is handled, nothing is requested, no file is
\* written, the progress file is neither loaded nor saved.
C14_MissingColumnAborts ==
    ~(required_cols \subseteq columns) =>
        /\ pc \in {"start", "aborted"}
        /\ i = 0
        /\ last = NoLast
        /\ processed_apps = {}
        /\ ~net_used
        /\ disk = disk_at_start
        /\ ~loaded
        /\ progress_file = Absent

C14_Witness == pc = "aborted" /\ "sha256" \notin columns /\ Len(df) > 0

\* C15: a row whose sha256 is null fails in its first attempt without any
\* request, is tallied once as failed and marked processed, and the rows
\* after it are handled.
C15_NullHashFailsOnce ==
    /\ (Downloaded /\ rows[last.index].sha256 = None) =>
           /\ ~last.ok
           /\ last.attempts = 1
           /\ last.requests = 0
           /\ last.backoff = <<>>
           /\ TalliedAs("download_failed")
           /\ last.pkg \in processed_apps
           /\ i = last.index
           /\ pc \in {"loop", "done"}
    /\ (pc = "done" /\ \E k \in 1..Len(rows) : rows[k].sha256 = None) =>
           /\ i = Len(rows)
           /\ AllIdentifiers \subseteq processed_apps

C15_Witness ==
    /\ pc = "done"
    /\ ~args.dry_run
    /\ Len(rows) = 2
    /\ rows[1].sha256 = None
    /\ Downloaded /\ last.index = 2 /\ last.ok
    /\ stats.download_failed = 1
    /\ stats.successfully_downloaded = 1

\* C16: no rate-limit sleep follows a row that download_apk answered from the
\* destination folder because its file was already there.
C16_NoDelayAfterLocalSkip == (Downloaded /\ last.existed) => ~last.rate_sleep

\* C17: under --dry-run every row not yet processed is counted and marked
\* processed as in a real run, no request is sent and the destination
\* folder stays as it was.
C17_DryRunTouchesNothing ==
    args.dry_run =>
        /\ ~net_used
        /\ disk = disk_at_start
        /\ last.kind # "download"
        /\ last.kind = "dry_run" =>
               /\ last.requests = 0
               /\ ~last.fs
               /\ TalliedAs("successfully_downloaded")
               /\ last.pkg \in processed_apps
               /\ stats.processed = Cardinality(processed_apps)
        /\ pc = "done" => AllIdentifiers \subseteq processed_apps

C17_Witness ==
    /\ args.dry_run
    /\ pc = "done"
    /\ last.kind = "dry_run"
    /\ run = 2
    /\ disk # <<>>
    /\ stats.successfully_downloaded = Len(rows)

\* The keyword lists and the relatedness substrings the claims speak of.
levels_of(l) ==
    CASE l = "logback" -> logback_levels
      [] l = "slf4j" -> slf4j_levels
      [] l = "timber" -> timber_levels
      [] l = "orhanobut" -> orhanobut_levels

gate_of(l) ==
    CASE l = "logback" -> logback_indicators \cup logback_patterns
      [] l = "slf4j" -> slf4j_gate
      [] l = "timber" -> timber_indicators \cup timber_patterns
      [] l = "orhanobut" -> orhanobut_indicators \cup orhanobut_patterns

Classified == label \notin {"none", "pending"}

\* The text holds a keyword of the k-th level of the library, in any case.
HasLevel(k) == any_in(lower(text.toks), levels_of(lib)[k].keywords)

\* The text holds one of the substrings that mark it as the library's.
PassesGate == text.kind = "str" /\ any_in(lower(text.toks), gate_of(lib))

\* C19: a text of the library that holds keywords of two levels is given a
\* label no later in the library's order than the earlier of the two, hence
\* the first level present, wherever the keywords stand in the text.
C19_FirstLevelInOrderWins ==
    (Classified /\ PassesGate) =>
        \A a, b \in 1..Len(levels_of(lib)) :
            (a < b /\ HasLevel(a) /\ HasLevel(b)) =>
                label \in {levels_of(lib)[c].label : c \in 1..a}

\* "warn(" stands before "error(" in a Logback text: ERROR.
C19_Witness ==
    /\ lib = "logback"
    /\ text = Str(<<"warn", "(", "ch", ".", "qos", ".", "logback", ".", "classic", ".",
                    "Logger", "void", " ", "error", "(">>)
    /\ HasLevel(1) /\ HasLevel(2)
    /\ label = "ERROR"

\* C20: a text with none of the library's relatedness substrings is Unknown
\* even if it holds a level keyword; so is an empty or missing text.
C20_UnrelatedOrEmptyIsUnknown ==
    Classified =>
        /\ (text.kind # "str" \/ text.toks = <<>>) => label = "Unknown"
        /\ (text.kind = "str" /\ ~any_in(lower(text.toks), gate_of(lib))) =>
               label = "Unknown"

C20_Witness ==
    /\ lib = "logback"
    /\ text = Str(<<"void", " ", "error", "(">>)
    /\ HasLevel(1)
    /\ ~PassesGate
    /\ label = "Unknown"

\* C24: download_apk returns True only for a file that was at the target path
\* before the first attempt of the call or whose payload was streamed to the
\* end in the call; a file truncated by an earlier attempt of the same call
\* is not taken for a success.
C24_SuccessMeansCompleteFile ==
    (Downloaded /\ last.ok) =>
        \/ last.existed
        \/ last.events[Len(last.events)].kind = "ok"

\* C25: the k-th wait of an item lasts 5*k seconds, so the waits strictly
\* increase, and no wait follows the last attempt of the item, whether it is
\* the final retry, a 404/401 answer or a local write error.
C25_BackoffGrowsAndStopsAtTheEnd ==
    Downloaded =>
        /\ \A k \in 1..Len(last.backoff) : last.backoff[k] = 5 * k
        /\ \A k \in 2..Len(last.backoff) : last.backoff[k - 1] < last.backoff[k]
        /\ Len(last.backoff) <= last.attempts - 1
        /\ Len(last.backoff) <= retry_count - 1

C25_Witness ==
    /\ Downloaded
    /\ ~last.ok
    /\ last.attempts = 3
    /\ last.backoff = <<5, 10>>

\* C26: a Logback text that holds the appender method appendLoopOnAppenders,
\* in whatever letter case, and no keyword of an earlier level of the chain
\* is labelled APPENDER.
C26_AppenderKeywordAnyCase ==
    (/\ Classified
     /\ lib = "logback"
     /\ PassesGate
     /\ contains(lower(text.toks), <<"appendlooponappenders">>)
     /\ \A k \in 1..(Len(logback_levels) - 1) : ~HasLevel(k)) =>
        label = "APPENDER"

\* is_<lib>_related, as the library-only mode applies it to the sink column.
is_related(l, t) ==
    CASE l = "logback" -> is_logback_related(t)
      [] l = "slf4j" -> is_slf4j_related(t)
      [] l = "timber" -> is_timber_related(t)
      [] l = "orhanobut" -> is_orhanobut_logger_related(t)

\* C27: for a non-empty text the classifier answers Unknown exactly when the
\* relatedness predicate of the same library answers False.
C27_ClassifierAgreesWithPredicate ==
    (Classified /\ text.kind = "str" /\ text.toks # <<>>) =>
        (label = "Unknown" <=> ~is_related(lib, text))

\* The numbers X of the lines "...SetupApplication - Found X leaks" of the file.
LeakCounts ==
    {int_of(SubSeq(log_content, k + 3, k + 2 + digit_run(log_content, k + 3))) :
        k \in {j \in 1..Len(log_content) : pattern_at(log_content, j)}}

\* C22: the leak scanner reports a readable file, with a count taken from it,
\* exactly when the file has a line "Found X leaks" with X > 0.
C22_ReportedIffPositiveLine ==
    (leak_report # <<>> /\ readable) =>
        /\ leak_report[1].has_leaks <=> (\E x \in LeakCounts : x > 0)
        /\ leak_report[1].has_leaks => leak_report[1].num_leaks \in LeakCounts

\* C29: no file is selected by both scanners: check_file_for_message with the
\* "Found 0 leaks" message and check_file_for_leaks are never both true.
C29_ScannersNeverBothSelect ==
    (leak_report # <<>> /\ zero_report # <<>>) =>
        ~(leak_report[1].has_leaks /\ zero_report[1])

C29_Witness ==
    /\ leak_report # <<>>
    /\ zero_report # <<>>
    /\ zero_report[1]
    /\ ~leak_report[1].has_leaks
    /\ \E x \in LeakCounts : x > 0

\* C21: a file moved onto a name the category directory already holds is
\* stored under a name with a timestamp suffix and the files that were in the
\* directory are still there unchanged; a moved file is gone from its source
\* path; no two moved files have the same destination path.
C21_MovedFilesNeverCollide ==
    /\ \A n \in DOMAIN dest_at_start :
           n \in DOMAIN dest_files /\ dest_files[n] = dest_at_start[n]
    /\ \A k \in 1..Len(moved_files) :
           /\ moved_files[k].conflict => moved_files[k].dest_path[2] # NoStamp
           /\ moved_files[k].file_path \notin src_files
    /\ \A j, k \in 1..Len(moved_files) :
           j # k => moved_files[j].dest_path # moved_files[k].dest_path

\* C23: in the leaking-app downloader an app whose file existed before the
\* fetch is counted under skipped_existing, and an app whose file was newly
\* fetched under successfully_downloaded.
C23_SkippedAndDownloadedKeptApart ==
    (app_last # <<>> /\ app_last[1].found /\ app_last[1].success) =>
        /\ app_last[1].existed => app_last[1].counter = "skipped_existing"
        /\ ~app_last[1].existed => app_last[1].counter = "successfully_downloaded"

\* C30: when the loop of the leaking-app downloader has finished,
\* total_apps = found_in_dataset + not_found and
\* found_in_dataset = successfully_downloaded + skipped_existing + download_failed.
C30_CountersAddUp ==
    app_pc = "done" =>
        /\ app_stats.total_apps = app_stats.found_in_dataset + app_stats.not_found
        /\ app_stats.found_in_dataset =
               app_stats.successfully_downloaded + app_stats.skipped_existing
               + app_stats.download_failed

C30_Witness ==
    /\ app_pc = "done"
    /\ app_stats.total_apps = MaxApps
    /\ app_stats.not_found = 1
    /\ app_stats.download_failed = 1
    /\ app_stats.successfully_downloaded = 1

\* The APK names run_flowdroid has started FlowDroid for.
HandledApks == UNION {log_files[c] : c \in Categories}

InList(c, a) == results[c][a] > 0

\* C28: in the FlowDroid wrapper every handled APK name is once in exactly
\* one of the lists successful/overtime/failure and has a .log file in
\* exactly one category directory; processed_apks is the union of the three
\* lists; an APK name already in processed_apks is not run or recorded again.
C28_OneCategoryPerApk ==
    script_pc # "idle" =>
        /\ \A a \in HandledApks :
               /\ \E c \in Categories :
                      /\ results[c][a] = 1
                      /\ \A d \in Categories \ {c} : results[d][a] = 0
               /\ Cardinality({c \in Categories : a \in log_files[c]}) = 1
        /\ processed_apks = {a \in ApkNames : \E c \in Categories : InList(c, a)}
        /\ (last_call # <<>> /\ last_call[1].was_processed) =>
               ~last_call[1].ran

====
